---- MODULE Spec2Model ----
(***************************************************************************)
(* State-machine model of the dish details screen                          *)
(* (frontend/app/details/[id].tsx): the fetch effect (local dataset first, *)
(* then the remote catalog), the favorite check and history record against *)
(* AsyncStorage, toggleFavorite, and the ingredient enrichment effect.     *)
(*                                                                         *)
(* Every `await` is a suspension point: an action is the resolution of one *)
(* awaited call (the read or the write reaches the store, the remote call  *)
(* answers) together with the continuation that runs up to the next await. *)
(* Other handlers may run between any two of them.  A render is taken to   *)
(* be committed after each handler, so a handler's closure holds the state *)
(* left by the previous step.                                              *)
(***************************************************************************)
EXTENDS Integers, Sequences, FiniteSets, TLC

\* ------------------------------------------------------------------ bounds
\* How many times the fetch effect runs (the mount, then each change of id).
MaxInvocations == 2
\* How many times the favorite button is pressed.
MaxToggles == 2
\* How many dishes the sequential history run views beyond MAX_HISTORY.
ExtraViews == 2

\* ------------------------------------------------------- program constants
FAVORITES_KEY == "FAVORITES"
HISTORY_KEY   == "HISTORY"
MAX_HISTORY   == 50
\* for (let i = 1; i <= 20; i++)
NumSlots      == 20

\* ------------------------------------------------------------- optionals
\* null / undefined is the empty sequence, a value x is <<x>>.
None    == <<>>
Some(x) == <<x>>
IsSome(o) == Len(o) > 0
Val(o)  == o[1]

\* ---------------------------------------------------------------- strings
\* A string is a sequence of one-character strings.
IsSpace(c) == c = " "

RECURSIVE TrimStart(_)
TrimStart(s) ==
  IF s # <<>> /\ IsSpace(Head(s)) THEN TrimStart(Tail(s)) ELSE s

RECURSIVE TrimEnd(_)
TrimEnd(s) ==
  IF s # <<>> /\ IsSpace(s[Len(s)]) THEN TrimEnd(SubSeq(s, 1, Len(s) - 1)) ELSE s

\* String.prototype.trim
Trim(s) == TrimEnd(TrimStart(s))

\* A variant that forgets to trim.
OptTrim_NoTrim(o) == o

\* dish[key]?.trim(): undefined stays undefined
OptTrim(o) == IF IsSome(o) THEN Some(Trim(Val(o))) ELSE None

\* JavaScript truthiness of an optional string: undefined and "" are falsy.
Truthy(o) == IsSome(o) /\ Val(o) # <<>>

\* ------------------------------------------------------------ environment
\* The identifiers the screen is opened with.
DishIds == {1, 2, 3}
\* The identifiers of the bundled dataset; the remote catalog has a record
\* for every identifier, these included.
LocalIds == {i \in 1..99 : i % 3 = 1}
\* Remote identifiers whose records enumerate the contents of slots 1, 5, 20.
EnrichIds == 100..163

\* services/localData getMealById: the Meal, or undefined
getMealById(i) ==
  IF i \in LocalIds
    THEN Some([id |-> i, name |-> "local meal", thumbnail |-> "asset",
               instructions |-> "local text"])
    ELSE None

\* What an ingredient slot of a remote record may hold:
\* null, a blank string, and two names with surrounding whitespace.
RawNames == << None, Some(<<" ">>), Some(<<" ", "a">>), Some(<<"b", " ">>) >>

Pow4(p) == IF p = 0 THEN 1 ELSE IF p = 1 THEN 4 ELSE 16
Digit(n, p) == (n \div Pow4(p)) % 4

\* strIngredient<s> of the remote record i
RemoteIngredient(i, s) ==
  IF i \in EnrichIds
    THEN CASE s = 1  -> RawNames[Digit(i - 100, 0) + 1]
           [] s = 5  -> RawNames[Digit(i - 100, 1) + 1]
           [] s = 20 -> RawNames[Digit(i - 100, 2) + 1]
           [] OTHER  -> IF s % 2 = 0 THEN None ELSE Some(<<>>)
    ELSE CASE i = 1 /\ s = 1 -> Some(<<"a">>)
           [] i = 2 /\ s = 2 -> Some(<<" ", "a">>)
           [] OTHER          -> IF s % 2 = 0 THEN None ELSE Some(<<>>)

\* strMeasure<s> of the remote record i
RemoteMeasure(i, s) ==
  IF s % 5 = 0 THEN None ELSE IF s % 2 = 0 THEN Some(<<"2">>) ELSE Some(<<" ", "1", " ">>)

\* services/api getMealDetails, when it resolves: the remote record of i
getMealDetails(i) ==
  [idMeal |-> i, strMeal |-> "remote meal", strMealThumb |-> "url",
   strInstructions |-> "remote text",
   strIngredient |-> [s \in 1..NumSlots |-> RemoteIngredient(i, s)],
   strMeasure    |-> [s \in 1..NumSlots |-> RemoteMeasure(i, s)]]

\* services/api getNutritionByIngredient, when it resolves
getNutritionByIngredient(name) ==
  IF name = <<"a">>
    THEN [calories |-> 52, protein |-> 1, fat |-> 2, sugars |-> 10, sodium |-> 3]
    ELSE [calories |-> 7, protein |-> 0, fat |-> 0, sugars |-> 1, sodium |-> 0]

\* services/api getAllergenFlags, when it resolves
getAllergenFlags(name) ==
  IF name = <<"a">> THEN <<"en:milk", "en:nuts">> ELSE <<"en:gluten">>

\* ------------------------------------------------------------------ state
VARIABLES
  id,                \* useLocalSearchParams().id (0 before the mount)
  dish,              \* useState(null)
  loadingDish,       \* useState(true)
  ingredients,       \* useState([])
  loadingNutrition,  \* useState(true)
  isFavorite,        \* useState(false)
  localMeal,         \* useState(null)
  loadingLocal,      \* useState(true)
  storage,           \* AsyncStorage: key -> stored JSON (None when absent)
  now,               \* Date.now()
  inv,               \* the runs of the fetch effect, in start order
                     \* (emitted: log of the dish the run passed to setDish)
  tog,               \* the calls of toggleFavorite, in start order
  enr,               \* the run of the enrichment effect each fetch run set off
  calls,             \* log: the remote calls issued and the history writes made
  storage0,          \* log: the store as the screen found it
  queue,             \* the storage requests awaiting service, in issue order
  serial             \* whether the store serves its requests in issue order

vars == << id, dish, loadingDish, ingredients, loadingNutrition, isFavorite,
           localMeal, loadingLocal, storage, now, inv, tog, enr, calls, storage0,
           queue, serial >>

view  == << dish, loadingDish, ingredients, loadingNutrition, isFavorite,
            localMeal, loadingLocal >>

\* --------------------------------------------------------------- helpers
\* list.filter(e => e.idMeal !== x)
RECURSIVE WithoutId(_, _)
WithoutId(list, x) ==
  IF list = <<>> THEN <<>>
  ELSE IF Head(list).idMeal # x THEN <<Head(list)>> \o WithoutId(Tail(list), x)
       ELSE WithoutId(Tail(list), x)

\* list.some(e => e.idMeal === x)
HasId(list, x) == \E k \in DOMAIN list : list[k].idMeal = x

\* A variant that keeps one entry too many.
Slice0_OneMore(list, n) == SubSeq(list, 1, IF Len(list) < n + 1 THEN Len(list) ELSE n + 1)

\* Array.prototype.slice(0, n)
Slice0(list, n) == SubSeq(list, 1, IF Len(list) < n THEN Len(list) ELSE n)

\* json ? JSON.parse(json) : []
ParseOrEmpty(json) == IF IsSome(json) THEN Val(json) ELSE <<>>

\* JSON.stringify(list)
JSONstringify(list) == Some(list)

\* The `dish` object the local branch builds from a Meal: it has no
\* strIngredient / strMeasure fields.
LocalDishObject(m) ==
  [idMeal |-> m.id, strMeal |-> m.name, strMealThumb |-> m.thumbnail,
   strInstructions |-> m.instructions,
   strIngredient |-> [s \in 1..NumSlots |-> None],
   strMeasure    |-> [s \in 1..NumSlots |-> None]]

\* A variant that never takes the local branch.
FoundLocally_Never(m) == FALSE

\* if (m)
FoundLocally(m) == IsSome(m)

\* The loader gate of the render.
Loader ==
  \/ IsSome(localMeal) /\ loadingLocal
  \/ ~IsSome(localMeal) /\ loadingDish

\* The favorite button is on screen: the loader is gone and the render that
\* follows it (localMeal.*, or dish.* for a remote dish) has a dish to read.
ButtonShown == ~Loader /\ (IsSome(localMeal) \/ IsSome(dish))

\* ----------------------------------------------------- history and favorites
\* A variant that prepends without removing the dish's old entry.
PrependDedupe_NoFilter(histList, newEntry) ==
  LET l == <<newEntry>> \o histList
  IN  IF Len(l) > MAX_HISTORY THEN Slice0(l, MAX_HISTORY) ELSE l

\* [newEntry, ...histList.filter(h => h.idMeal !== idMeal)], cut to MAX_HISTORY
PrependDedupe(histList, newEntry) ==
  LET l == <<newEntry>> \o WithoutId(histList, newEntry.idMeal)
  IN  IF Len(l) > MAX_HISTORY THEN Slice0(l, MAX_HISTORY) ELSE l

\* The history list the local branch writes for Meal m at time t.
LocalHistory(histList, m, t) ==
  PrependDedupe(histList, [idMeal |-> m.id, strMeal |-> m.name,
                           strMealThumb |-> m.thumbnail, viewedAt |-> t])

\* The history list the remote branch writes for the record data at time t.
RemoteHistory(histList, data, t) ==
  PrependDedupe(histList, [idMeal |-> data.idMeal, strMeal |-> data.strMeal,
                           strMealThumb |-> data.strMealThumb, viewedAt |-> t])

\* The entry toggleFavorite pushes for dish d.
FavoriteEntry(d) ==
  [idMeal |-> d.idMeal, strMeal |-> d.strMeal, strMealThumb |-> d.strMealThumb]

\* A variant that starts from an empty list instead of the list read.
ToggledList_Reset(list, fav, d) ==
  IF fav THEN <<>> ELSE <<FavoriteEntry(d)>>

\* The list toggleFavorite writes, from the list it read and the isFavorite
\* and dish of the render it was created in.
ToggledList(list, fav, d) ==
  IF fav THEN WithoutId(list, d.idMeal) ELSE Append(list, FavoriteEntry(d))

\* ------------------------------------------------------------ enrichment
\* The for loop over the slots i..20 of dish d.
RECURSIVE ExtractFrom(_, _)
ExtractFrom(d, i) ==
  IF i > NumSlots THEN <<>>
  ELSE LET name    == OptTrim(d.strIngredient[i])
           measure == OptTrim(d.strMeasure[i])
       IN  (IF Truthy(name) THEN << [name |-> Val(name), measure |-> measure] >>
            ELSE <<>>) \o ExtractFrom(d, i + 1)

ExtractList(d) == ExtractFrom(d, 1)

\* The entry of the catch branch.
Degraded(p) ==
  [name |-> p.name, measure |-> p.measure,
   nutrition |-> [calories |-> 0, protein |-> 0, fat |-> 0, sugars |-> 0, sodium |-> 0],
   allergens |-> <<>>]

\* The entry of the try branch.
Enriched(p, nut, aler) ==
  [name |-> p.name, measure |-> p.measure, nutrition |-> nut, allergens |-> aler]

\* A variant that tests the dish alone.
SkipEnrichment_DishOnly(d, lm) == ~IsSome(d)

\* if (!dish || localMeal) return
SkipEnrichment(d, lm) == ~IsSome(d) \/ IsSome(lm)

NoEnrichment == [pc |-> "none", dish |-> None, list |-> <<>>, st |-> <<>>,
                 nut |-> <<>>, out |-> <<>>]

\* The enrichment effect as it runs after a render with dish d and localMeal
\* lm: the list is extracted and every ingredient's closure runs up to its
\* first await, the nutrition fetch.
StartEnrichment(d, lm) ==
  IF SkipEnrichment(d, lm) THEN NoEnrichment
  ELSE LET list == ExtractList(Val(d))
       IN  [pc |-> "run", dish |-> d, list |-> list,
            st  |-> [k \in DOMAIN list |-> "nut"],
            nut |-> [k \in DOMAIN list |-> None],
            out |-> [k \in DOMAIN list |-> None]]

\* ------------------------------------------------------------ AsyncStorage
\* A run of the fetch effect or a call of toggleFavorite has at most one
\* storage request outstanding, so a request is named by its caller.
InvReq(i) == << "inv", i >>
TogReq(t) == << "tog", t >>

\* The request may be served now.
AtHead(req) == serial => (queue # <<>> /\ Head(queue) = req)

\* The queue once the caller has issued a request.
Issue(req) == IF serial THEN Append(queue, req) ELSE queue

\* The queue once the request at its head has been served.
Settle == IF serial THEN Tail(queue) ELSE queue

\* The queue once the request at its head has been served and its caller has
\* issued the next one.
SettleAndIssue(req) == IF serial THEN Append(Tail(queue), req) ELSE queue

\* --------------------------------------------------------------------- Init
EmptyStorage == [k \in {FAVORITES_KEY, HISTORY_KEY} |-> None]

\* Entries earlier sessions may have left in the store.
OldFavorite(i) ==
  IF i \in LocalIds THEN FavoriteEntry(LocalDishObject(Val(getMealById(i))))
  ELSE FavoriteEntry(getMealDetails(i))

OldStorage ==
  [EmptyStorage EXCEPT
     ![FAVORITES_KEY] = JSONstringify(<<OldFavorite(2)>>),
     ![HISTORY_KEY]   = JSONstringify(<< [idMeal |-> 3, strMeal |-> "remote meal",
                                          strMealThumb |-> "url", viewedAt |-> 0] >>)]

InitView ==
  /\ id = 0
  /\ dish = None
  /\ loadingDish = TRUE
  /\ ingredients = <<>>
  /\ loadingNutrition = TRUE
  /\ isFavorite = FALSE
  /\ localMeal = None
  /\ loadingLocal = TRUE
  /\ now = 0
  /\ inv = <<>>
  /\ tog = <<>>
  /\ enr = <<>>
  /\ calls = [meal |-> {}, nut |-> {}, aler |-> {}, hist |-> {}]
  /\ queue = <<>>

Init ==
  /\ InitView
  /\ storage \in {EmptyStorage, OldStorage}
  /\ storage0 = storage
  /\ serial = FALSE

\* ------------------------------------------------------------ fetch effect
\* The identifier a fetch run checks and records: m.id or data.idMeal.
DishIdOf(r) == IF r.local THEN Val(r.m).id ELSE Val(r.data).idMeal

\* The effect of [id]: the route parameter becomes newId and the async body
\* runs up to its first await.
Invoke(newId, max) ==
  /\ newId # id
  /\ Len(inv) < max
  /\ id' = newId
  /\ LET m == getMealById(newId)
         k == Len(inv) + 1
     IN  IF FoundLocally(m)
           THEN /\ localMeal' = m
                /\ dish' = Some(LocalDishObject(Val(m)))
                /\ inv' = Append(inv, [pc |-> "favGet", id |-> newId, local |-> TRUE,
                                       m |-> m, data |-> None, histList |-> <<>>,
                                       emitted |-> dish'])
                /\ enr' = Append(enr, StartEnrichment(dish', localMeal'))
                /\ calls' = [calls EXCEPT
                               !.nut = @ \cup {<<k, j>> : j \in DOMAIN enr'[k].list}]
                /\ queue' = Issue(InvReq(k))
           ELSE /\ inv' = Append(inv, [pc |-> "fetch", id |-> newId, local |-> FALSE,
                                       m |-> m, data |-> None, histList |-> <<>>,
                                       emitted |-> None])
                /\ enr' = Append(enr, NoEnrichment)
                /\ calls' = [calls EXCEPT !.meal = @ \cup {k}]
                /\ UNCHANGED << localMeal, dish, queue >>
  /\ UNCHANGED << loadingDish, ingredients, loadingNutrition, isFavorite,
                  loadingLocal, storage, now, tog, storage0, serial >>

\* getMealDetails(id) resolves: setDish(data), the enrichment effect runs for
\* the new dish, and the favorite read is issued.
FetchOk(i) ==
  /\ inv[i].pc = "fetch"
  /\ LET data == getMealDetails(inv[i].id)
     IN  /\ dish' = Some(data)
         /\ inv' = [inv EXCEPT ![i].pc = "favGet", ![i].data = Some(data),
                               ![i].emitted = dish']
         /\ enr' = [enr EXCEPT ![i] = StartEnrichment(dish', localMeal)]
         /\ calls' = [calls EXCEPT
                        !.nut = @ \cup {<<i, j>> : j \in DOMAIN enr'[i].list}]
  /\ queue' = Issue(InvReq(i))
  /\ UNCHANGED << id, loadingDish, ingredients, loadingNutrition, isFavorite,
                  localMeal, loadingLocal, storage, now, tog, storage0, serial >>

\* What the run does when getMealDetails rejects: catch, then finally.
AfterFetchFailure(r) == [r EXCEPT !.pc = "failed"]

\* A variant whose catch block also clears the dish on screen.
FetchFail_ClearsDish(i) ==
  /\ inv[i].pc = "fetch"
  /\ inv' = [inv EXCEPT ![i] = AfterFetchFailure(inv[i])]
  /\ loadingDish' = FALSE
  /\ dish' = None
  /\ UNCHANGED << id, ingredients, loadingNutrition, isFavorite, localMeal,
                  loadingLocal, storage, now, tog, enr, calls, storage0, queue, serial >>

\* getMealDetails(id) rejects: console.error, setLoadingDish(false).
FetchFail(i) ==
  /\ inv[i].pc = "fetch"
  /\ inv' = [inv EXCEPT ![i] = AfterFetchFailure(inv[i])]
  /\ loadingDish' = FALSE
  /\ UNCHANGED << id, dish, ingredients, loadingNutrition, isFavorite, localMeal,
                  loadingLocal, storage, now, tog, enr, calls, storage0, queue, serial >>

\* A variant that leaves the favorite check for later: the read resolves and
\* the run moves on to the history record without setIsFavorite.
FavGet_NoCheck(i) ==
  /\ inv[i].pc = "favGet"
  /\ AtHead(InvReq(i))
  /\ queue' = SettleAndIssue(InvReq(i))
  /\ inv' = [inv EXCEPT ![i].pc = "histGet"]
  /\ UNCHANGED << id, dish, loadingDish, ingredients, loadingNutrition, isFavorite,
                  localMeal, loadingLocal, storage, now, tog, enr, calls, storage0,
                  serial >>

\* AsyncStorage.getItem(FAVORITES_KEY) resolves: setIsFavorite(favList.some(...)),
\* and the history read is issued.
FavGet(i) ==
  /\ inv[i].pc = "favGet"
  /\ AtHead(InvReq(i))
  /\ queue' = SettleAndIssue(InvReq(i))
  /\ LET favList == ParseOrEmpty(storage[FAVORITES_KEY])
     IN  isFavorite' = HasId(favList, DishIdOf(inv[i]))
  /\ inv' = [inv EXCEPT ![i].pc = "histGet"]
  /\ UNCHANGED << id, dish, loadingDish, ingredients, loadingNutrition, localMeal,
                  loadingLocal, storage, now, tog, enr, calls, storage0, serial >>

\* AsyncStorage.getItem(HISTORY_KEY) resolves: the new list is built with
\* Date.now() and the write is issued.
HistGet(i) ==
  /\ inv[i].pc = "histGet"
  /\ AtHead(InvReq(i))
  /\ queue' = SettleAndIssue(InvReq(i))
  /\ now' = now + 1
  /\ LET histList == ParseOrEmpty(storage[HISTORY_KEY])
     IN  inv' = [inv EXCEPT
                   ![i].pc = "histSet",
                   ![i].histList =
                      IF inv[i].local THEN LocalHistory(histList, Val(inv[i].m), now')
                      ELSE RemoteHistory(histList, Val(inv[i].data), now')]
  /\ UNCHANGED << id, view, storage, tog, enr, calls, storage0, serial >>

\* AsyncStorage.setItem(HISTORY_KEY, ...) resolves: the list is in the store;
\* then setLoadingLocal(false) on the local branch, the finally block's
\* setLoadingDish(false) on the remote one.
HistSet(i) ==
  /\ inv[i].pc = "histSet"
  /\ AtHead(InvReq(i))
  /\ queue' = Settle
  /\ storage' = [storage EXCEPT ![HISTORY_KEY] = JSONstringify(inv[i].histList)]
  /\ calls' = [calls EXCEPT !.hist = @ \cup {<<i, Cardinality({c \in @ : c[1] = i}) + 1>>}]
  /\ IF inv[i].local
       THEN /\ loadingLocal' = FALSE
            /\ inv' = [inv EXCEPT ![i].pc = "localDone", ![i].histList = <<>>]
            /\ UNCHANGED loadingDish
       ELSE /\ loadingDish' = FALSE
            /\ inv' = [inv EXCEPT ![i].pc = "remoteDone", ![i].histList = <<>>]
            /\ UNCHANGED loadingLocal
  /\ UNCHANGED << id, dish, ingredients, loadingNutrition, isFavorite, localMeal,
                  now, tog, enr, storage0, serial >>

\* A storage call of the run rejects.  The local branch has no try: the async
\* body ends there.  The remote branch catches and runs its finally block.
StorageFail(i) ==
  /\ inv[i].pc \in {"favGet", "histGet", "histSet"}
  /\ AtHead(InvReq(i))
  /\ queue' = Settle
  /\ IF inv[i].local
       THEN /\ inv' = [inv EXCEPT ![i].pc = "rejected", ![i].histList = <<>>]
            /\ UNCHANGED loadingDish
       ELSE /\ inv' = [inv EXCEPT ![i].pc = "caught", ![i].histList = <<>>]
            /\ loadingDish' = FALSE
  /\ UNCHANGED << id, dish, ingredients, loadingNutrition, isFavorite, localMeal,
                  loadingLocal, storage, now, tog, enr, calls, storage0, serial >>

\* ----------------------------------------------------------- toggleFavorite
\* The button is pressed: toggleFavorite of the current render is called and
\* runs up to its first await.  isFavorite and dish are the closure's.
ToggleStart ==
  /\ ButtonShown
  /\ Len(tog) < MaxToggles
  /\ queue' = Issue(TogReq(Len(tog) + 1))
  /\ tog' = Append(tog, [pc |-> "get", isFavorite |-> isFavorite, dish |-> Val(dish),
                         list |-> <<>>])
  /\ UNCHANGED << id, view, storage, now, inv, enr, calls, storage0, serial >>

\* AsyncStorage.getItem(FAVORITES_KEY) resolves: the list is filtered or
\* pushed to, and the write is issued.
ToggleGet(t) ==
  /\ tog[t].pc = "get"
  /\ AtHead(TogReq(t))
  /\ queue' = SettleAndIssue(TogReq(t))
  /\ LET list == ParseOrEmpty(storage[FAVORITES_KEY])
     IN  tog' = [tog EXCEPT ![t].pc = "set",
                            ![t].list = ToggledList(list, tog[t].isFavorite, tog[t].dish)]
  /\ UNCHANGED << id, view, storage, now, inv, enr, calls, storage0, serial >>

\* A variant whose read-modify-write is atomic: the list is read again and
\* changed in the step that writes it.
ToggleSet_Atomic(t) ==
  /\ tog[t].pc = "set"
  /\ AtHead(TogReq(t))
  /\ queue' = Settle
  /\ storage' = [storage EXCEPT
                   ![FAVORITES_KEY] =
                      JSONstringify(ToggledList(ParseOrEmpty(storage[FAVORITES_KEY]),
                                                tog[t].isFavorite, tog[t].dish))]
  /\ isFavorite' = ~tog[t].isFavorite
  /\ tog' = [tog EXCEPT ![t].pc = "done", ![t].list = <<>>]
  /\ UNCHANGED << id, dish, loadingDish, ingredients, loadingNutrition, localMeal,
                  loadingLocal, now, inv, enr, calls, storage0, serial >>

\* AsyncStorage.setItem(FAVORITES_KEY, ...) resolves: the list is in the
\* store; then setIsFavorite(!isFavorite).
ToggleSet(t) ==
  /\ tog[t].pc = "set"
  /\ AtHead(TogReq(t))
  /\ queue' = Settle
  /\ storage' = [storage EXCEPT ![FAVORITES_KEY] = JSONstringify(tog[t].list)]
  /\ isFavorite' = ~tog[t].isFavorite
  /\ tog' = [tog EXCEPT ![t].pc = "done", ![t].list = <<>>]
  /\ UNCHANGED << id, dish, loadingDish, ingredients, loadingNutrition, localMeal,
                  loadingLocal, now, inv, enr, calls, storage0, serial >>

\* A storage call of toggleFavorite rejects: the promise it returned rejects.
ToggleFail(t) ==
  /\ tog[t].pc \in {"get", "set"}
  /\ AtHead(TogReq(t))
  /\ queue' = Settle
  /\ tog' = [tog EXCEPT ![t].pc = "rejected", ![t].list = <<>>]
  /\ UNCHANGED << id, view, storage, now, inv, enr, calls, storage0, serial >>

\* -------------------------------------------------------- enrichment effect
\* getNutritionByIngredient(name) resolves: getAllergenFlags(name) is called.
NutOk(i, k) ==
  /\ enr[i].pc = "run"
  /\ enr[i].st[k] = "nut"
  /\ enr' = [enr EXCEPT ![i].st[k] = "aler",
                        ![i].nut[k] = Some(getNutritionByIngredient(enr[i].list[k].name))]
  /\ calls' = [calls EXCEPT !.aler = @ \cup {<<i, k>>}]
  /\ UNCHANGED << id, view, storage, now, inv, tog, storage0, queue, serial >>

\* getNutritionByIngredient(name) rejects: the catch branch returns.
NutFail(i, k) ==
  /\ enr[i].pc = "run"
  /\ enr[i].st[k] = "nut"
  /\ enr' = [enr EXCEPT ![i].st[k] = "caught",
                        ![i].out[k] = Some(Degraded(enr[i].list[k]))]
  /\ UNCHANGED << id, view, storage, now, inv, tog, calls, storage0, queue, serial >>

\* getAllergenFlags(name) resolves: the try branch returns.
AlerOk(i, k) ==
  /\ enr[i].pc = "run"
  /\ enr[i].st[k] = "aler"
  /\ enr' = [enr EXCEPT
               ![i].st[k] = "returned",
               ![i].out[k] = Some(Enriched(enr[i].list[k], Val(enr[i].nut[k]),
                                           getAllergenFlags(enr[i].list[k].name)))]
  /\ UNCHANGED << id, view, storage, now, inv, tog, calls, storage0, queue, serial >>

\* A variant that catches the allergen failure alone and keeps the nutrition
\* already fetched.
AlerFail_KeepsNutrition(i, k) ==
  /\ enr[i].pc = "run"
  /\ enr[i].st[k] = "aler"
  /\ enr' = [enr EXCEPT
               ![i].st[k] = "caught",
               ![i].out[k] = Some(Enriched(enr[i].list[k], Val(enr[i].nut[k]), <<>>))]
  /\ UNCHANGED << id, view, storage, now, inv, tog, calls, storage0, queue, serial >>

\* getAllergenFlags(name) rejects: the catch branch returns.
AlerFail(i, k) ==
  /\ enr[i].pc = "run"
  /\ enr[i].st[k] = "aler"
  /\ enr' = [enr EXCEPT ![i].st[k] = "caught",
                        ![i].out[k] = Some(Degraded(enr[i].list[k]))]
  /\ UNCHANGED << id, view, storage, now, inv, tog, calls, storage0, queue, serial >>

\* Every ingredient's promise has settled.
AllSettled(e) == \A k \in DOMAIN e.list : e.st[k] \in {"returned", "caught"}

\* A variant that resolves with the first ingredient to settle (a race) and
\* passes the entries settled by then.
EnrichJoin_Race(i) ==
  /\ enr[i].pc = "run"
  /\ \E k \in DOMAIN enr[i].list : enr[i].st[k] \in {"returned", "caught"}
  /\ LET settled == SelectSeq(enr[i].out, IsSome)
     IN  ingredients' = [k \in DOMAIN settled |-> Val(settled[k])]
  /\ loadingNutrition' = FALSE
  /\ enr' = [enr EXCEPT ![i].pc = "done"]
  /\ UNCHANGED << id, dish, loadingDish, isFavorite, localMeal, loadingLocal,
                  storage, now, inv, tog, calls, storage0, queue, serial >>

\* Promise.all resolves: setIngredients(enriched), setLoadingNut(false).
EnrichJoin(i) ==
  /\ enr[i].pc = "run"
  /\ AllSettled(enr[i])
  /\ ingredients' = [k \in DOMAIN enr[i].list |-> Val(enr[i].out[k])]
  /\ loadingNutrition' = FALSE
  /\ enr' = [enr EXCEPT ![i].pc = "done"]
  /\ UNCHANGED << id, dish, loadingDish, isFavorite, localMeal, loadingLocal,
                  storage, now, inv, tog, calls, storage0, queue, serial >>

\* --------------------------------------------------------------------- Spec
Next ==
  \/ \E newId \in DishIds : Invoke(newId, MaxInvocations)
  \/ \E i \in DOMAIN inv : FetchOk(i)
  \/ \E i \in DOMAIN inv : FetchFail(i)
  \/ \E i \in DOMAIN inv : FavGet(i)
  \/ \E i \in DOMAIN inv : HistGet(i)
  \/ \E i \in DOMAIN inv : HistSet(i)
  \/ \E i \in DOMAIN inv : StorageFail(i)
  \/ ToggleStart
  \/ \E t \in DOMAIN tog : ToggleGet(t)
  \/ \E t \in DOMAIN tog : ToggleSet(t)
  \/ \E t \in DOMAIN tog : ToggleFail(t)
  \/ \E i \in DOMAIN enr : \E k \in DOMAIN enr[i].list : NutOk(i, k)
  \/ \E i \in DOMAIN enr : \E k \in DOMAIN enr[i].list : NutFail(i, k)
  \/ \E i \in DOMAIN enr : \E k \in DOMAIN enr[i].list : AlerOk(i, k)
  \/ \E i \in DOMAIN enr : \E k \in DOMAIN enr[i].list : AlerFail(i, k)
  \/ \E i \in DOMAIN enr : EnrichJoin(i)

Spec == Init /\ [][Next]_vars

\* ------------------------------------------------------------- quiescence
InvDone(r) == r.pc \in {"localDone", "remoteDone", "failed", "rejected", "caught"}
TogDone(r) == r.pc \in {"done", "rejected"}
EnrDone(e) == e.pc \in {"none", "done"}

\* Nothing is in flight.
Quiescent ==
  /\ \A i \in DOMAIN inv : InvDone(inv[i])
  /\ \A t \in DOMAIN tog : TogDone(tog[t])
  /\ \A i \in DOMAIN enr : EnrDone(enr[i])

\* ------------------------------------------- sequential views (history run)
\* One dish is opened after the other, each once the previous view has come
\* to rest, every call succeeding: dishes 2, 3, 4, ... in turn, and at a few
\* points of the run one of two early dishes again instead.
ViewedIds == {inv[i].id : i \in DOMAIN inv}
NextFresh == Cardinality(ViewedIds) + 2
ReviewIds == {2, 4}
ReviewPoints == {3, 30, 51}
SeqChoice ==
  {NextFresh} \cup (IF Len(inv) \in ReviewPoints THEN ReviewIds \cap ViewedIds ELSE {})

InitSeq ==
  /\ InitView
  /\ storage = EmptyStorage
  /\ storage0 = storage
  /\ serial = FALSE

NextSeq ==
  \/ Quiescent /\ \E newId \in SeqChoice : Invoke(newId, MAX_HISTORY + ExtraViews)
  \/ \E i \in DOMAIN inv : FetchOk(i)
  \/ \E i \in DOMAIN inv : FavGet(i)
  \/ \E i \in DOMAIN inv : HistGet(i)
  \/ \E i \in DOMAIN inv : HistSet(i)
  \/ \E i \in DOMAIN enr : \E k \in DOMAIN enr[i].list : NutOk(i, k)
  \/ \E i \in DOMAIN enr : \E k \in DOMAIN enr[i].list : AlerOk(i, k)
  \/ \E i \in DOMAIN enr : EnrichJoin(i)

SpecSeq == InitSeq /\ [][NextSeq]_vars

\* ------------------------------------------ one remote dish (enrichment run)
\* The screen is opened once, on a remote dish whose slots 1, 5 and 20 hold
\* any of RawNames; every nutrition and allergen call may fail.
InitEnrich ==
  /\ InitView
  /\ storage = EmptyStorage
  /\ storage0 = storage
  /\ serial = FALSE

NextEnrich ==
  \/ \E newId \in EnrichIds : Invoke(newId, 1)
  \/ \E i \in DOMAIN inv : FetchOk(i)
  \/ \E i \in DOMAIN inv : FavGet(i)
  \/ \E i \in DOMAIN inv : HistGet(i)
  \/ \E i \in DOMAIN inv : HistSet(i)
  \/ \E i \in DOMAIN enr : \E k \in DOMAIN enr[i].list : NutOk(i, k)
  \/ \E i \in DOMAIN enr : \E k \in DOMAIN enr[i].list : NutFail(i, k)
  \/ \E i \in DOMAIN enr : \E k \in DOMAIN enr[i].list : AlerOk(i, k)
  \/ \E i \in DOMAIN enr : \E k \in DOMAIN enr[i].list : AlerFail(i, k)
  \/ \E i \in DOMAIN enr : EnrichJoin(i)

SpecEnrich == InitEnrich /\ [][NextEnrich]_vars

\* ------------------------------------------------- serial store (race run)
\* The screen of Spec on a store that serves its requests one after another,
\* in the order they were issued.
InitSerial ==
  /\ InitView
  /\ storage \in {EmptyStorage, OldStorage}
  /\ storage0 = storage
  /\ serial = TRUE

SpecSerial == InitSerial /\ [][Next]_vars

\* ------------------------------------------- one event at a time (pair run)
\* The user acts only on a screen at rest: a dish is opened, or the button is
\* pressed, once everything the previous event set off has settled; no dish
\* is opened after the first press.  Every call may fail.
InitPair ==
  /\ InitView
  /\ storage \in {EmptyStorage, OldStorage}
  /\ storage0 = storage
  /\ serial = TRUE

NextPair ==
  \/ Quiescent /\ tog = <<>> /\ \E newId \in DishIds : Invoke(newId, MaxInvocations)
  \/ \E i \in DOMAIN inv : FetchOk(i)
  \/ \E i \in DOMAIN inv : FetchFail(i)
  \/ \E i \in DOMAIN inv : FavGet(i)
  \/ \E i \in DOMAIN inv : HistGet(i)
  \/ \E i \in DOMAIN inv : HistSet(i)
  \/ \E i \in DOMAIN inv : StorageFail(i)
  \/ Quiescent /\ ToggleStart
  \/ \E t \in DOMAIN tog : ToggleGet(t)
  \/ \E t \in DOMAIN tog : ToggleSet(t)
  \/ \E t \in DOMAIN tog : ToggleFail(t)
  \/ \E i \in DOMAIN enr : \E k \in DOMAIN enr[i].list : NutOk(i, k)
  \/ \E i \in DOMAIN enr : \E k \in DOMAIN enr[i].list : NutFail(i, k)
  \/ \E i \in DOMAIN enr : \E k \in DOMAIN enr[i].list : AlerOk(i, k)
  \/ \E i \in DOMAIN enr : \E k \in DOMAIN enr[i].list : AlerFail(i, k)
  \/ \E i \in DOMAIN enr : EnrichJoin(i)

SpecPair == InitPair /\ [][NextPair]_vars

\* --------------------------------------------- every call succeeds (race run)
\* The screen on an empty store that serves its requests in issue order, no
\* call failing; the route may change once more than under Spec.
InitLost ==
  /\ InitView
  /\ storage = EmptyStorage
  /\ storage0 = storage
  /\ serial = TRUE

NextLost ==
  \/ \E newId \in DishIds : Invoke(newId, MaxInvocations + 1)
  \/ \E i \in DOMAIN inv : FetchOk(i)
  \/ \E i \in DOMAIN inv : FavGet(i)
  \/ \E i \in DOMAIN inv : HistGet(i)
  \/ \E i \in DOMAIN inv : HistSet(i)
  \/ ToggleStart
  \/ \E t \in DOMAIN tog : ToggleGet(t)
  \/ \E t \in DOMAIN tog : ToggleSet(t)
  \/ \E i \in DOMAIN enr : \E k \in DOMAIN enr[i].list : NutOk(i, k)
  \/ \E i \in DOMAIN enr : \E k \in DOMAIN enr[i].list : AlerOk(i, k)
  \/ \E i \in DOMAIN enr : EnrichJoin(i)

SpecLost == InitLost /\ [][NextLost]_vars

\* ================================================================= claims
Favorites == ParseOrEmpty(storage[FAVORITES_KEY])
History   == ParseOrEmpty(storage[HISTORY_KEY])

\* No two entries of the list have the same idMeal.
UniqueIds(list) ==
  \A a, b \in DOMAIN list : list[a].idMeal = list[b].idMeal => a = b

\* C1 -- Local precedence.  A run of the fetch effect on an identifier that
\* getMealById finds never calls getMealDetails (although the remote catalog
\* has a record for it too), and the dish it passes to setDish is the one
\* built from the local Meal.
C1_LocalPrecedence ==
  \A i \in DOMAIN inv :
    IsSome(getMealById(inv[i].id)) =>
      /\ i \notin calls.meal
      /\ inv[i].pc # "fetch"
      /\ inv[i].data = None
      /\ inv[i].emitted = Some(LocalDishObject(Val(getMealById(inv[i].id))))

\* A run on a local identifier, which the remote catalog also holds, has
\* finished, after an earlier run took the remote branch.
C1_Witness ==
  \E i \in DOMAIN inv :
    /\ IsSome(getMealById(inv[i].id))
    /\ getMealDetails(inv[i].id).idMeal = inv[i].id
    /\ inv[i].pc = "localDone"
    /\ calls.meal # {}
    /\ dish = inv[i].emitted

\* C2 -- History uniqueness.  The store the screen found held a history
\* without duplicates (or none); whatever runs of the fetch effect and calls
\* of toggleFavorite interleave, the persisted history never holds two
\* entries of one dish.
C2_HistoryUnique ==
  UniqueIds(ParseOrEmpty(storage0[HISTORY_KEY])) => UniqueIds(History)

\* Two runs overlapped (both had read the history before either wrote), one
\* of them on a dish that was in the history already, and both have written.
C2_Witness ==
  /\ Len(inv) = 2
  /\ inv[1].pc = "remoteDone" /\ inv[2].pc = "localDone"
  /\ HasId(ParseOrEmpty(storage0[HISTORY_KEY]), inv[1].id)
  /\ Len(History) = 2
  /\ History[1].viewedAt = 1

\* The nutrition and allergen calls issued by run i of the fetch effect.
EnrichCalls(i) == {c \in calls.nut \cup calls.aler : c[1] = i}

\* C9 -- Local dish bypass.  A run of the fetch effect on an identifier of
\* the local dataset never sets off the enrichment: no nutrition or allergen
\* call is issued for it and it never passes a list to setIngredients.
C9_LocalBypass ==
  \A i \in DOMAIN inv :
    inv[i].local => /\ enr[i].pc = "none"
                    /\ EnrichCalls(i) = {}

\* The second run is on a local identifier and has finished, while the first
\* run's remote dish was enriched.
C9_Witness ==
  /\ Len(inv) = 2
  /\ inv[2].local /\ inv[2].pc = "localDone"
  /\ enr[1].pc = "done" /\ EnrichCalls(1) # {}

\* The step in which getMealDetails rejects for run i.
FailsNow(i) == inv[i].pc = "fetch" /\ inv'[i].pc = "failed"

\* C10 -- Remote failure has no side effects.  The step in which
\* getMealDetails rejects changes neither the dish on screen, nor the store,
\* nor the favorite flag, and issues no call; the run then stays failed, with
\* no dish passed to setDish, no enrichment and no nutrition or allergen call.
C10_FailureNoEffects ==
  /\ [][\A i \in DOMAIN inv :
          /\ FailsNow(i) =>
               /\ dish' = dish /\ storage' = storage /\ isFavorite' = isFavorite
               /\ ingredients' = ingredients /\ calls' = calls /\ enr' = enr
          /\ inv[i].pc = "failed" => inv'[i] = inv[i]]_vars
  /\ [](\A i \in DOMAIN inv :
          inv[i].pc = "failed" =>
            /\ inv[i].emitted = None
            /\ inv[i].histList = <<>>
            /\ enr[i].pc = "none"
            /\ EnrichCalls(i) = {})

\* The second run's fetch failed while the first run's dish was on screen
\* and its history write had been made.
C10_Witness ==
  /\ Len(inv) = 2
  /\ inv[2].pc = "failed"
  /\ inv[1].pc = "remoteDone"
  /\ IsSome(dish) /\ Val(dish).idMeal = inv[1].id
  /\ id = inv[2].id

\* The step in which run i's history write reaches the store.
WritesHistory(i) == inv[i].pc = "histSet" /\ inv'[i].pc # "histSet"

Min(a, b) == IF a < b THEN a ELSE b

\* The last n runs of the fetch effect were on n different dishes.
LastDistinct(n) ==
  /\ Len(inv) >= n
  /\ Cardinality({inv[i].id : i \in (Len(inv) - n + 1)..Len(inv)}) = n

\* C3 -- History dedup-and-promote with bound, the views following one
\* another.  A history write for dish d on the stored list H leaves: d first,
\* with the dish's name and thumbnail and a viewedAt later than every one in
\* H; then the entries of H that are not d's, in their order; the whole cut
\* to MAX_HISTORY entries.  So the list never grows past MAX_HISTORY, and
\* when MAX_HISTORY + 1 views in a row were of different dishes, the first of
\* them is gone and the other MAX_HISTORY are listed newest first.
C3_DedupPromoteBound ==
  /\ [][\A i \in DOMAIN inv :
          WritesHistory(i) =>
            LET d    == DishIdOf(inv[i])
                rest == SelectSeq(History, LAMBDA e : e.idMeal # d)
                new  == History'
            IN  /\ Len(new) = Min(1 + Len(rest), MAX_HISTORY)
                /\ new[1] = [idMeal |-> d,
                             strMeal |-> Val(inv[i].emitted).strMeal,
                             strMealThumb |-> Val(inv[i].emitted).strMealThumb,
                             viewedAt |-> now]
                /\ \A k \in DOMAIN History : History[k].viewedAt < now
                /\ \A k \in 2..Len(new) : new[k] = rest[k - 1]]_vars
  /\ [](Len(History) <= MAX_HISTORY)
  /\ [](Quiescent /\ LastDistinct(MAX_HISTORY + 1) =>
          /\ Len(History) = MAX_HISTORY
          /\ \A k \in 1..MAX_HISTORY : History[k].idMeal = inv[Len(inv) + 1 - k].id
          /\ ~HasId(History, inv[Len(inv) - MAX_HISTORY].id))

\* MAX_HISTORY + 1 different dishes were viewed one after the other, local
\* and remote ones, and the first of them has been evicted.
C3_Witness ==
  /\ Quiescent
  /\ Len(inv) = MAX_HISTORY + 1
  /\ LastDistinct(MAX_HISTORY + 1)
  /\ Len(History) = MAX_HISTORY
  /\ ~HasId(History, inv[1].id)
  /\ \E i, j \in DOMAIN inv : inv[i].local /\ ~inv[j].local

\* The slot holds a name with a character that is not a blank.
NonBlank(raw) == IsSome(raw) /\ \E j \in DOMAIN Val(raw) : Val(raw)[j] # " "

\* The slots of dish d that hold such a name.
NamedSlots(d) == {s \in 1..20 : NonBlank(d.strIngredient[s])}

\* The place of slot s among the slots S, counted from 1.
Rank(S, s) == Cardinality({x \in S : x <= s})

\* The text from the first to the last non-blank character.
Core(str) ==
  LET js == {j \in DOMAIN str : str[j] # " "}
      lo == CHOOSE j \in js : \A x \in js : j <= x
      hi == CHOOSE j \in js : \A x \in js : j >= x
  IN  SubSeq(str, lo, hi)

\* C7 -- Enrichment coverage and order.  The list the enrichment of a remote
\* dish passes to setIngredients has one entry for every slot in 1..20 whose
\* name is not blank, in ascending slot order, under the slot's trimmed name
\* (equal names are kept apart), and nothing else, whichever nutrition and
\* allergen calls failed.
C7_CoverageOrder ==
  \A i \in DOMAIN enr :
    enr[i].pc = "done" =>
      LET d == Val(enr[i].dish)
          S == NamedSlots(d)
      IN  /\ Len(ingredients) = Cardinality(S)
          /\ \A s \in S :
               ingredients[Rank(S, s)].name = Core(Val(d.strIngredient[s]))

\* The dish names slots 1, 5 and 20 only, two of them alike; its three
\* entries are out, in slot order, one of them after a failed call.
C7_Witness ==
  /\ Len(enr) = 1 /\ enr[1].pc = "done"
  /\ NamedSlots(Val(enr[1].dish)) = {1, 5, 20}
  /\ Len(ingredients) = 3
  /\ ingredients[1].name = <<"a">> /\ ingredients[2].name = <<"b">>
  /\ ingredients[3].name = <<"a">>
  /\ \E k \in 1..3 : enr[1].st[k] = "caught"

ZeroNutrition == [calories |-> 0, protein |-> 0, fat |-> 0, sugars |-> 0, sodium |-> 0]

\* C8 -- Per-ingredient failure isolation.  In the list passed to
\* setIngredients, the entry of an ingredient one of whose two calls failed
\* has all-zero nutrition and no allergens, and the entry of an ingredient
\* whose calls both answered has the nutrition and the allergens fetched for
\* its name, whatever happened to the other ingredients.  A failed call never
\* stops the run: once every ingredient has settled, the list can be passed.
C8_FailureIsolation ==
  \A i \in DOMAIN enr :
    /\ enr[i].pc = "done" =>
         /\ Len(ingredients) = Len(enr[i].list)
         /\ \A k \in DOMAIN enr[i].list :
              /\ ingredients[k].name = enr[i].list[k].name
              /\ ingredients[k].measure = enr[i].list[k].measure
              /\ IF enr[i].st[k] = "caught"
                   THEN /\ ingredients[k].nutrition = ZeroNutrition
                        /\ ingredients[k].allergens = <<>>
                   ELSE /\ ingredients[k].nutrition =
                             getNutritionByIngredient(ingredients[k].name)
                        /\ ingredients[k].allergens =
                             getAllergenFlags(ingredients[k].name)
    /\ enr[i].pc = "run" =>
         /\ \A k \in DOMAIN enr[i].list :
              enr[i].st[k] \in {"nut", "aler", "returned", "caught"}
         /\ AllSettled(enr[i]) => ENABLED EnrichJoin(i)

\* Of three ingredients the nutrition call of the second failed and the
\* allergen call of the third; the first has its fetched values.
C8_Witness ==
  /\ Len(enr) = 1 /\ enr[1].pc = "done"
  /\ Len(ingredients) = 3
  /\ enr[1].st = <<"returned", "caught", "caught">>
  /\ enr[1].nut[2] = None /\ enr[1].nut[3] # None
  /\ ingredients[1].nutrition # ZeroNutrition

\* The favorites list the screen found in the store.
Favorites0 == ParseOrEmpty(storage0[FAVORITES_KEY])

\* No storage call of the screen has rejected.
NoRejection ==
  /\ \A i \in DOMAIN inv : inv[i].pc \notin {"rejected", "caught"}
  /\ \A t \in DOMAIN tog : tog[t].pc # "rejected"

\* C4 - favorites uniqueness: starting from an empty persisted favorites
\* list, in every reachable state, after any interleaving of toggleFavorite
\* calls and runs of the fetch effect, the persisted favorites list holds at
\* most one entry per dish identifier.  (Stated here for the runs in which no
\* storage call rejects.)
C4_FavoritesUnique ==
  (Favorites0 = <<>> /\ NoRejection) => UniqueIds(Favorites)

\* C5 - toggle pairing: two toggleFavorite calls for one dish, the second
\* made after the first has completed and the screen has rendered its
\* result, with nothing else in between, leave the membership of the dish's
\* identifier in the persisted favorites as it was before the first call.
\* (Under SpecPair the favorites before the first call are those the screen
\* found in the store.)
C5_TogglePairing ==
  (/\ Len(tog) = 2
   /\ tog[1].pc = "done" /\ tog[2].pc = "done"
   /\ tog[1].dish.idMeal = tog[2].dish.idMeal)
    => (HasId(Favorites, tog[1].dish.idMeal) = HasId(Favorites0, tog[1].dish.idMeal))

\* C6 - the flag agrees with the store: whenever no call of toggleFavorite
\* and no favorite check is in flight, isFavorite equals the membership of
\* the current dish's identifier in the persisted favorites list.  (Stated
\* here for the runs in which no storage call rejects, and for the states in
\* which the dish on screen is the dish of the route.)
C6_FlagAgreesWithStore ==
  (/\ IsSome(dish)
   /\ Val(dish).idMeal = id
   /\ IsSome(localMeal) => Val(localMeal).id = id
   /\ NoRejection
   /\ \A t \in DOMAIN tog : TogDone(tog[t])
   /\ \A i \in DOMAIN inv : inv[i].pc # "favGet")
    => (isFavorite = HasId(Favorites, Val(dish).idMeal))

\* The number of history writes run i of the fetch effect has made.
HistoryWrites(i) == Cardinality({c \in calls.hist : c[1] = i})

\* C11 - history is recorded exactly once per dish view: a run of the fetch
\* effect never makes a second history write; a run that has ended made one
\* if it obtained a dish (from the local dataset or from getMealDetails) and
\* none if it obtained no dish; and the write is for the dish it obtained.
C11_HistoryOncePerView ==
  \A i \in DOMAIN inv :
    /\ HistoryWrites(i) <= 1
    /\ InvDone(inv[i]) =>
         HistoryWrites(i) = (IF IsSome(inv[i].emitted) THEN 1 ELSE 0)

\* C12 - both enrichment calls are issued concurrently for each ingredient:
\* once the enrichment of a dish has started, getNutritionByIngredient(name)
\* and getAllergenFlags(name) have both been issued for every extracted
\* ingredient, neither waiting for the outcome of the other.
C12_BothCallsConcurrent ==
  \A i \in DOMAIN enr :
    enr[i].pc \in {"run", "done"} =>
      \A k \in DOMAIN enr[i].list :
        /\ <<i, k>> \in calls.nut
        /\ <<i, k>> \in calls.aler

\* The step in which run i of the enrichment passes its list to setIngredients.
Emits(i) == enr[i].pc = "run" /\ enr'[i].pc = "done"

\* C13 - enrichment is a join, not a race: the ingredient list changes and
\* loadingNutrition is cleared only in a step in which an enrichment whose
\* ingredients have all settled (returned or caught) passes its whole list,
\* one entry per extracted ingredient; until then nothing is passed; and each
\* entry is its own ingredient's result, whatever became of the others.
C13_JoinNotRace ==
  /\ [][(ingredients' # ingredients \/ loadingNutrition' # loadingNutrition) =>
          \E i \in DOMAIN enr :
            /\ Emits(i)
            /\ \A k \in DOMAIN enr[i].list : enr[i].st[k] \in {"returned", "caught"}
            /\ Len(ingredients') = Len(enr[i].list)
            /\ loadingNutrition' = FALSE
            /\ \A k \in DOMAIN enr[i].list :
                 ingredients'[k] =
                   IF enr[i].st[k] = "caught" THEN Degraded(enr[i].list[k])
                   ELSE Enriched(enr[i].list[k],
                                 getNutritionByIngredient(enr[i].list[k].name),
                                 getAllergenFlags(enr[i].list[k].name))]_vars
  /\ []((\A i \in DOMAIN enr : enr[i].pc # "done") =>
          ingredients = <<>> /\ loadingNutrition)

\* Three ingredients: the first one's nutrition call failed, and the list was
\* passed once the other two had both their answers.
C13_Witness ==
  /\ Len(enr) = 1 /\ enr[1].pc = "done"
  /\ enr[1].st = <<"caught", "returned", "returned">>
  /\ enr[1].nut[1] = None
  /\ Len(ingredients) = 3
  /\ ~loadingNutrition

\* Every run of the fetch effect obtained its dish and ran to its end.
AllSucceeded ==
  \A i \in DOMAIN inv : inv[i].pc \in {"localDone", "remoteDone"}

\* C14 - stale results are discarded: once everything has settled, the dish
\* on screen is the one the most recent run of the fetch effect obtained (the
\* dish of the identifier requested last) and the ingredient list is that
\* dish's.  (Stated here for the runs in which every call succeeds.)
C14_StaleDiscarded ==
  (inv # <<>> /\ Quiescent /\ AllSucceeded) =>
    /\ dish = inv[Len(inv)].emitted
    /\ Val(dish).idMeal = id
    /\ Len(ingredients) = Len(enr[Len(inv)].list)

\* Run i, on the remote branch, moves from a to b in this step.
RemoteStep(i, a, b) == ~inv[i].local /\ inv[i].pc = a /\ inv'[i].pc = b

\* C15 (as stated) - remote path step order: the history write precedes the
\* favorite check, and no nutrition or allergen call is issued before both
\* have completed.
C15_HistoryBeforeFavorite ==
  \A i \in DOMAIN inv :
    ~inv[i].local =>
      /\ inv[i].pc \in {"histGet", "histSet", "remoteDone"} => HistoryWrites(i) = 1
      /\ EnrichCalls(i) # {} => inv[i].pc = "remoteDone"

\* C15 (amended) - remote path step order: a run on the remote branch goes
\* through remote dish fetch, emit dish, favorite check, history read,
\* history write, in that order; the enrichment starts in the step that
\* emits the dish, not before, and runs beside the favorite check and the
\* history record; the ingredient list is passed only for an emitted dish.
C15_RemoteStepOrder ==
  /\ [][\A i \in DOMAIN inv :
          (~inv[i].local /\ inv'[i].pc # inv[i].pc) =>
            \/ /\ RemoteStep(i, "fetch", "favGet")
               /\ inv[i].emitted = None
               /\ dish' = inv'[i].emitted
               /\ IsSome(dish') /\ Val(dish').idMeal = inv[i].id
               /\ EnrichCalls(i) = {} /\ enr[i].pc = "none"
               /\ ~IsSome(localMeal) =>
                    /\ enr'[i].pc = "run"
                    /\ \A k \in DOMAIN enr'[i].list : <<i, k>> \in calls'.nut
               /\ HistoryWrites(i) = 0
            \/ /\ RemoteStep(i, "fetch", "failed")
            \/ /\ RemoteStep(i, "favGet", "histGet")
               /\ isFavorite' = HasId(Favorites, inv[i].id)
               /\ HistoryWrites(i) = 0 /\ storage' = storage
            \/ /\ RemoteStep(i, "histGet", "histSet")
               /\ HistoryWrites(i) = 0 /\ storage' = storage
            \/ /\ RemoteStep(i, "histSet", "remoteDone")
               /\ HistoryWrites(i)' = 1
               /\ History'[1].idMeal = inv[i].id
               /\ loadingDish' = FALSE
            \/ /\ inv[i].pc \in {"favGet", "histGet", "histSet"}
               /\ inv'[i].pc = "caught"
               /\ storage' = storage]_vars
  /\ [][\A i \in DOMAIN enr : Emits(i) => IsSome(inv[i].emitted)]_vars
  /\ [](\A i \in DOMAIN inv :
          (~inv[i].local /\ inv[i].pc = "fetch") =>
            EnrichCalls(i) = {} /\ enr[i].pc = "none")

\* A remote dish that was a favorite already has gone through every step:
\* the flag is set, the history holds the dish first, its ingredients are out.
C15_Witness ==
  /\ Len(inv) = 1 /\ inv[1].pc = "remoteDone"
  /\ enr[1].pc = "done" /\ EnrichCalls(1) # {}
  /\ isFavorite
  /\ History[1].idMeal = inv[1].id
  /\ Len(ingredients) = 1

\* C16 - enrichment always completes: once nothing more is in flight, every
\* run of the fetch effect whose getMealDetails succeeded has had its
\* enrichment pass the ingredient list, and loadingNutrition is cleared.
\* (Stated here for the runs in which no storage call rejects.)
C16_EnrichmentCompletes ==
  (Quiescent /\ NoRejection) =>
    \A i \in DOMAIN inv :
      (~inv[i].local /\ IsSome(inv[i].emitted)) =>
        /\ enr[i].pc = "done"
        /\ ~loadingNutrition

\* C17 - a storage failure does not block the dish: when a storage call of
\* the favorite check or of the history record rejects in the most recent
\* run of the fetch effect, which had obtained its dish, the screen leaves
\* its loading state with that dish emitted.
C17_StorageFailureNoBlock ==
  \A i \in DOMAIN inv :
    (i = Len(inv) /\ inv[i].pc \in {"rejected", "caught"}) =>
      /\ dish = inv[i].emitted
      /\ ~Loader

\* The step in which call t of toggleFavorite writes its list to the store.
WritesFavorites(t) == tog[t].pc = "set" /\ tog'[t].pc = "done"

\* C18 - the read-modify-write cycles of the store are not atomic and can
\* lose an update.  A write installs the list built when its caller read,
\* whatever was written since: a history write whose list was built before
\* another dish's record reached the store removes that record, and a
\* favorites write whose list was built before another dish's toggle reached
\* the store removes that toggle's entry.
C18_LostUpdate ==
  /\ [][\A i \in DOMAIN inv :
          WritesHistory(i) =>
            /\ History' = inv[i].histList
            /\ \A j \in DOMAIN inv :
                 (/\ inv[j].pc \in {"localDone", "remoteDone"}
                  /\ HasId(History, inv[j].id)
                  /\ ~HasId(inv[i].histList, inv[j].id))
                   => ~HasId(History', inv[j].id)]_vars
  /\ [][\A t \in DOMAIN tog :
          WritesFavorites(t) =>
            /\ Favorites' = tog[t].list
            /\ \A u \in DOMAIN tog :
                 (/\ tog[u].pc = "done" /\ ~tog[u].isFavorite
                  /\ HasId(Favorites, tog[u].dish.idMeal)
                  /\ ~HasId(tog[t].list, tog[u].dish.idMeal))
                   => ~HasId(Favorites', tog[u].dish.idMeal)]_vars

\* Everything has settled and no call failed.  After three views the
\* history, far from full, lacks a dish that was viewed; the button was pressed for
\* two different dishes, neither a favorite, and one of them is none now.
C18_Witness ==
  /\ Quiescent
  /\ Len(inv) = 3 /\ AllSucceeded
  /\ Len(History) < MAX_HISTORY
  /\ \E i \in DOMAIN inv : ~HasId(History, inv[i].id)
  /\ Len(tog) = 2
  /\ tog[1].pc = "done" /\ tog[2].pc = "done"
  /\ tog[1].dish.idMeal # tog[2].dish.idMeal
  /\ ~tog[1].isFavorite /\ ~tog[2].isFavorite
  /\ \E t \in DOMAIN tog : ~HasId(Favorites, tog[t].dish.idMeal)

\* The step in which call t of toggleFavorite, having read the list, builds
\* the list it will write.
BuildsFavorites(t) == tog[t].pc = "get" /\ tog'[t].pc = "set"

C20_ToggleGatedBehindFavoriteCheck ==
  [][(Len(inv) = 1 /\ Len(inv') = 1 /\ ~ButtonShown /\ ButtonShown') =>
       /\ inv[1].pc \in {"histGet", "histSet"}
       /\ inv[1].local => (inv[1].pc = "histSet" /\ inv'[1].pc = "localDone")]_vars

====
